---- MODULE Spec2Model ----
(***************************************************************************)
(* Model of lama-cleaner's web server (main.py): process start-up          *)
(* (get_args_parser, main) and the three Flask handlers (process, index,   *)
(* set_input_photo).  process() is modelled statement by statement, so     *)
(* that the order of its stages and the point where an exception leaves    *)
(* it are visible.  The helpers of lama_cleaner.helper and the model       *)
(* classes are outside main.py; they are modelled from their contracts.    *)
(***************************************************************************)
EXTENDS Integers, Sequences, FiniteSets, TLC

\* Largest height/width of an uploaded picture.
MaxDim == 3
\* Number of requests the server answers in one run.
MaxRequests == 2

NumChannels == 3

----------------------------------------------------------------------------
\* Strings are sequences of one-character strings, so that int() and the
\* comparison with "Original" work on the text itself.
Original == <<"O", "r", "i", "g", "i", "n", "a", "l">>
DefaultSizeLimit == <<"1", "0", "8", "0">>

DigitChars == <<"0", "1", "2", "3", "4", "5", "6", "7", "8", "9">>

IsDigit(c) == \E i \in 1..Len(DigitChars) : DigitChars[i] = c

DigitVal(c) == (CHOOSE i \in 1..Len(DigitChars) : DigitChars[i] = c) - 1

RECURSIVE ParseDigits(_)
ParseDigits(d) ==
    IF d = <<>> THEN 0
    ELSE 10 * ParseDigits(SubSeq(d, 1, Len(d) - 1)) + DigitVal(d[Len(d)])

\* Python's int(str): an optional sign followed by at least one digit;
\* anything else raises ValueError.
StripSign(s) == IF s # <<>> /\ Head(s) \in {"-", "+"} THEN Tail(s) ELSE s

IntParses(s) ==
    /\ StripSign(s) # <<>>
    /\ \A i \in 1..Len(StripSign(s)) : IsDigit(StripSign(s)[i])

int(s) ==
    IF s # <<>> /\ Head(s) = "-" THEN 0 - ParseDigits(StripSign(s))
    ELSE ParseDigits(StripSign(s))

\* The values of the form field sizeLimit that clients send.
SizeLimitStrings ==
    { Original, DefaultSizeLimit, <<"2">>, <<"1">>, <<"0">>, <<"a", "b", "c">>, <<>> }

\* request.form: the list of values posted under the key sizeLimit.
Forms == { <<>> } \cup { <<s>> : s \in SizeLimitStrings }

\* request.form.get("sizeLimit", "1080")
FormGet(form, default) == IF form = <<>> THEN default ELSE form[1]

\* An uploaded file: absent from request.files, bytes that are no picture,
\* or the bytes of an h x w picture.
NoFile == [kind |-> "missing", h |-> 0, w |-> 0]
Garbage == [kind |-> "garbage", h |-> 0, w |-> 0]
Pictures == { [kind |-> "img", h |-> h, w |-> w] : h, w \in 1..MaxDim }
Payloads == { NoFile, Garbage } \cup Pictures

Requests == [image : Payloads, mask : Payloads, form : Forms]
NoRequest == [image |-> NoFile, mask |-> NoFile, form |-> <<>>]

----------------------------------------------------------------------------
\* lama_cleaner.helper and the model classes

\* load_img raises on bytes that are not a supported picture.
Decodable(p) == p.kind = "img"

\* load_img: the shape of the decoded array, 3 channels or 1 (gray).
load_img(p, gray) == IF gray THEN <<p.h, p.w>> ELSE <<p.h, p.w, NumChannels>>

Max2(a, b) == IF a >= b THEN a ELSE b

RECURSIVE MaxOf(_)
\* Python's max() over a shape tuple.
MaxOf(shape) ==
    IF Len(shape) = 1 THEN shape[1] ELSE Max2(Head(shape), MaxOf(Tail(shape)))

\* n / d rounded to the nearest integer.
RoundDiv(n, d) == (2 * n + d) \div (2 * d)

\* resize_max_size: unchanged when the longer side is within the limit,
\* else both sides scaled by limit / longer side.
resize_max_size(shape, limit) ==
    LET h == shape[1]
        w == shape[2]
        m == Max2(h, w)
    IN  IF m <= limit THEN shape
        ELSE [shape EXCEPT ![1] = RoundDiv(h * limit, m),
                           ![2] = RoundDiv(w * limit, m)]

\* norm_img: channel-first layout.
norm_img(shape) ==
    IF Len(shape) = 2 THEN <<1, shape[1], shape[2]>>
    ELSE <<shape[3], shape[1], shape[2]>>

\* model(image, mask): the inpainted picture has the spatial size of the
\* image tensor, in channel-last layout.
model_call(img, msk) == <<img[2], img[3], NumChannels>>

----------------------------------------------------------------------------
\* The command line and the file system seen at start-up.
Paths == {"missing.png", "notes.txt", "photo.png"}

FileKind(p) ==
    CASE p = "missing.png" -> "absent"
      [] p = "notes.txt" -> "text"
      [] OTHER -> "image"

exists(p) == FileKind(p) # "absent"

imghdr_what(p) == IF FileKind(p) = "image" THEN "png" ELSE "None"

ModelChoices == {"lama", "ldm"}

Args == [input : {"None"} \cup Paths,
         model : ModelChoices \cup {"other"},
         device : {"cuda", "cpu"},
         gui : BOOLEAN]

----------------------------------------------------------------------------
VARIABLES
    args,             \* sys.argv as parsed by argparse
    phase,            \* position in main(): start, parsed, configured,
                      \* constructed, serving, aborted
    diagnostic,       \* message the process printed when it aborted
    model,            \* global model
    device,           \* global device
    input_image_path, \* global input_image_path
    served,           \* requests answered so far
    pc,               \* position in process()
    req,              \* flask.request of the request being handled
    image,            \* local image (a shape; <<>> before assignment)
    original_shape,   \* local original_shape
    size_limit,       \* local size_limit once it is an int
    mask,             \* local mask
    res_np_img,       \* local res_np_img
    exc,              \* exception that left the handler
    resp,             \* response of the last finished request
    stages,           \* stages of process() run so far for this request
    model_calls,      \* calls of model(image, mask) in this request
    model_input,      \* arguments of the last model call
    cache_released    \* torch.cuda.empty_cache() calls in this request

globals == <<model, device, input_image_path>>
boot == <<args, phase, diagnostic>>
locals == <<image, original_shape, size_limit, mask, res_np_img>>
observed == <<stages, model_calls, model_input, cache_released>>
vars == <<args, phase, diagnostic, model, device, input_image_path, served,
          pc, req, image, original_shape, size_limit, mask, res_np_img, exc,
          resp, stages, model_calls, model_input, cache_released>>

NoResp == [handler |-> "None", status |-> 0, body |-> "None"]

Init ==
    /\ args \in Args
    /\ phase = "start"
    /\ diagnostic = "None"
    /\ model = "None"
    /\ device = "None"
    /\ input_image_path = "None"
    /\ served = 0
    /\ pc = "idle"
    /\ req = NoRequest
    /\ image = <<>>
    /\ original_shape = <<>>
    /\ size_limit = 0
    /\ mask = <<>>
    /\ res_np_img = <<>>
    /\ exc = "None"
    /\ resp = NoResp
    /\ stages = <<>>
    /\ model_calls = 0
    /\ model_input = <<>>
    /\ cache_released = 0

----------------------------------------------------------------------------
\* Start-up

\* parser.error(): prints the message and exits with status 2.
ParserError(msg) ==
    /\ phase' = "aborted"
    /\ diagnostic' = msg

\* get_args_parser() as it would be without the imghdr check of --input.
get_args_parser_no_imghdr ==
    /\ phase = "start"
    /\ IF args.model \notin ModelChoices
         THEN ParserError("invalid choice")
       ELSE IF args.input # "None" /\ ~exists(args.input)
         THEN ParserError("not exists")
       ELSE /\ phase' = "parsed"
            /\ UNCHANGED diagnostic
    /\ UNCHANGED <<args, globals, served, pc, req, locals, exc, resp, observed>>

\* get_args_parser(): argparse rejects a --model outside its choices, then
\* --input is checked to exist and to be a picture.
get_args_parser ==
    /\ phase = "start"
    /\ IF args.model \notin ModelChoices
         THEN ParserError("invalid choice")
       ELSE IF args.input # "None" /\ ~exists(args.input)
         THEN ParserError("not exists")
       ELSE IF args.input # "None" /\ imghdr_what(args.input) = "None"
         THEN ParserError("is not a valid image file")
       ELSE /\ phase' = "parsed"
            /\ UNCHANGED diagnostic
    /\ UNCHANGED <<args, globals, served, pc, req, locals, exc, resp, observed>>

\* main(): device = torch.device(args.device); input_image_path = args.input
SetGlobals ==
    /\ phase = "parsed"
    /\ device' = args.device
    /\ input_image_path' = args.input
    /\ phase' = "configured"
    /\ UNCHANGED <<args, diagnostic, model, served, pc, req, locals, exc, resp,
                   observed>>

\* main(): the model is built from args.model; the constructor loads the
\* weights and may raise, which ends the process with a traceback.
ConstructModel ==
    /\ phase = "configured"
    /\ \E loaded \in BOOLEAN :
         IF args.model \in ModelChoices /\ loaded
           THEN /\ model' = (IF args.model = "lama" THEN "LaMa" ELSE "LDM")
                /\ phase' = "constructed"
                /\ UNCHANGED diagnostic
           ELSE /\ phase' = "aborted"
                /\ diagnostic' = (IF args.model \in ModelChoices
                                    THEN "model constructor raised"
                                    ELSE "Not supported model")
                /\ UNCHANGED model
    /\ UNCHANGED <<args, device, input_image_path, served, pc, req, locals, exc,
                   resp, observed>>

\* main(): ui.run() or app.run(): the server starts to serve.
StartServer ==
    /\ phase = "constructed"
    /\ phase' = "serving"
    /\ UNCHANGED <<args, diagnostic, globals, served, pc, req, locals, exc, resp,
                   observed>>

Serving == phase = "serving"

----------------------------------------------------------------------------
\* Flask turns an exception that leaves a handler into a response: a
\* BadRequestKeyError (an HTTPException) is 400, any other exception 500.
FlaskStatus(e) == IF e = "BadRequestKeyError" THEN 400 ELSE 500

\* An exception leaves process(): nothing after the raising statement runs.
Raise(e) ==
    /\ exc' = e
    /\ pc' = "done"
    /\ resp' = [handler |-> "process", status |-> FlaskStatus(e), body |-> "error"]

Stage(s) == stages' = Append(stages, s)

\* POST /inpaint arrives: input = request.files
Receive ==
    /\ Serving
    /\ pc = "idle"
    /\ served < MaxRequests
    /\ req' \in Requests
    /\ pc' = "load_image"
    /\ resp' = NoResp
    /\ exc' = "None"
    /\ stages' = <<"receive">>
    /\ UNCHANGED <<boot, globals, served, locals, model_calls, model_input,
                   cache_released>>

\* image = load_img(input["image"].read()); original_shape = image.shape
LoadImage ==
    /\ pc = "load_image"
    /\ Stage("decode_image")
    /\ IF req.image.kind = "missing"
         THEN Raise("BadRequestKeyError") /\ UNCHANGED <<image, original_shape>>
       ELSE IF ~Decodable(req.image)
         THEN Raise("DecodeError") /\ UNCHANGED <<image, original_shape>>
       ELSE /\ image' = load_img(req.image, FALSE)
            /\ original_shape' = load_img(req.image, FALSE)
            /\ pc' = "resolve_limit"
            /\ UNCHANGED <<exc, resp>>
    /\ UNCHANGED <<boot, globals, served, req, size_limit, mask, res_np_img,
                   model_calls, model_input, cache_released>>

\* The value size_limit is bound to for the sentinel "Original".
OriginalLimit(shape) == MaxOf(shape)

\* size_limit = request.form.get("sizeLimit", "1080"); "Original" becomes
\* max(image.shape), anything else goes through int().
ResolveSizeLimit ==
    /\ pc = "resolve_limit"
    /\ Stage("resolve_limit")
    /\ LET s == FormGet(req.form, DefaultSizeLimit)
       IN  IF s = Original
             THEN /\ size_limit' = OriginalLimit(image)
                  /\ pc' = "resize_image"
                  /\ UNCHANGED <<exc, resp>>
           ELSE IF IntParses(s)
             THEN /\ size_limit' = int(s)
                  /\ pc' = "resize_image"
                  /\ UNCHANGED <<exc, resp>>
           ELSE Raise("ValueError") /\ UNCHANGED size_limit
    /\ UNCHANGED <<boot, globals, served, req, image, original_shape, mask,
                   res_np_img, model_calls, model_input, cache_released>>

\* image = resize_max_size(image, size_limit=size_limit, ...)
ResizeImage ==
    /\ pc = "resize_image"
    /\ Stage("resize_image")
    /\ image' = resize_max_size(image, size_limit)
    /\ pc' = "norm_image"
    /\ UNCHANGED <<boot, globals, served, req, original_shape, size_limit, mask,
                   res_np_img, exc, resp, model_calls, model_input,
                   cache_released>>

\* image = norm_img(image)
NormImage ==
    /\ pc = "norm_image"
    /\ Stage("norm_image")
    /\ image' = norm_img(image)
    /\ pc' = "load_mask"
    /\ UNCHANGED <<boot, globals, served, req, original_shape, size_limit, mask,
                   res_np_img, exc, resp, model_calls, model_input,
                   cache_released>>

\* LoadMask as it would be with the decode error caught and logged: the
\* handler goes on with an empty mask.
LoadMaskLenient ==
    /\ pc = "load_mask"
    /\ Stage("decode_mask")
    /\ IF req.mask.kind = "missing"
         THEN Raise("BadRequestKeyError") /\ UNCHANGED mask
       ELSE IF ~Decodable(req.mask)
         THEN /\ exc' = "DecodeError"
              /\ mask' = <<0, 0>>
              /\ pc' = "resize_mask"
              /\ UNCHANGED resp
       ELSE /\ mask' = load_img(req.mask, TRUE)
            /\ pc' = "resize_mask"
            /\ UNCHANGED <<exc, resp>>
    /\ UNCHANGED <<boot, globals, served, req, image, original_shape, size_limit,
                   res_np_img, model_calls, model_input, cache_released>>

\* mask = load_img(input["mask"].read(), gray=True)
LoadMask ==
    /\ pc = "load_mask"
    /\ Stage("decode_mask")
    /\ IF req.mask.kind = "missing"
         THEN Raise("BadRequestKeyError") /\ UNCHANGED mask
       ELSE IF ~Decodable(req.mask)
         THEN Raise("DecodeError") /\ UNCHANGED mask
       ELSE /\ mask' = load_img(req.mask, TRUE)
            /\ pc' = "resize_mask"
            /\ UNCHANGED <<exc, resp>>
    /\ UNCHANGED <<boot, globals, served, req, image, original_shape, size_limit,
                   res_np_img, model_calls, model_input, cache_released>>

\* ResizeMask as it would be with the mask resized to the default limit
\* instead of the limit resolved for the image.
ResizeMaskDefaultLimit ==
    /\ pc = "resize_mask"
    /\ Stage("resize_mask")
    /\ mask' = resize_max_size(mask, int(DefaultSizeLimit))
    /\ pc' = "norm_mask"
    /\ UNCHANGED <<boot, globals, served, req, image, original_shape, size_limit,
                   res_np_img, exc, resp, model_calls, model_input,
                   cache_released>>

\* mask = resize_max_size(mask, size_limit=size_limit, ...)
ResizeMask ==
    /\ pc = "resize_mask"
    /\ Stage("resize_mask")
    /\ mask' = resize_max_size(mask, size_limit)
    /\ pc' = "norm_mask"
    /\ UNCHANGED <<boot, globals, served, req, image, original_shape, size_limit,
                   res_np_img, exc, resp, model_calls, model_input,
                   cache_released>>

\* mask = norm_img(mask)
NormMask ==
    /\ pc = "norm_mask"
    /\ Stage("norm_mask")
    /\ mask' = norm_img(mask)
    /\ pc' = "call_model"
    /\ UNCHANGED <<boot, globals, served, req, image, original_shape, size_limit,
                   res_np_img, exc, resp, model_calls, model_input,
                   cache_released>>

\* CallModel as it would be with a failed call tried again.
CallModelRetry ==
    /\ pc = "call_model"
    /\ Stage("model")
    /\ model_calls' = model_calls + 1
    /\ model_input' = <<image, mask>>
    /\ \E ok \in BOOLEAN :
         IF ok
           THEN /\ res_np_img' = model_call(image, mask)
                /\ pc' = "empty_cache"
                /\ UNCHANGED <<exc, resp>>
           ELSE IF model_calls = 0
             THEN UNCHANGED <<pc, exc, resp, res_np_img>>
           ELSE Raise("InferenceError") /\ UNCHANGED res_np_img
    /\ UNCHANGED <<boot, globals, served, req, image, original_shape, size_limit,
                   mask, cache_released>>

\* res_np_img = model(image, mask): returns the picture or raises.
CallModel ==
    /\ pc = "call_model"
    /\ Stage("model")
    /\ model_calls' = model_calls + 1
    /\ model_input' = <<image, mask>>
    /\ \E ok \in BOOLEAN :
         IF ok
           THEN /\ res_np_img' = model_call(image, mask)
                /\ pc' = "empty_cache"
                /\ UNCHANGED <<exc, resp>>
           ELSE Raise("InferenceError") /\ UNCHANGED res_np_img
    /\ UNCHANGED <<boot, globals, served, req, image, original_shape, size_limit,
                   mask, cache_released>>

\* torch.cuda.empty_cache()
EmptyCache ==
    /\ pc = "empty_cache"
    /\ Stage("release")
    /\ cache_released' = cache_released + 1
    /\ pc' = "send_file"
    /\ UNCHANGED <<boot, globals, served, req, locals, exc, resp, model_calls,
                   model_input>>

\* return send_file(io.BytesIO(numpy_to_bytes(res_np_img)), ...)
SendFile ==
    /\ pc = "send_file"
    /\ Stage("encode")
    /\ resp' = [handler |-> "process", status |-> 200, body |-> "result.jpeg"]
    /\ pc' = "done"
    /\ UNCHANGED <<boot, globals, served, req, locals, exc, model_calls,
                   model_input, cache_released>>

\* The response is sent; the handler's locals die with its frame.
Return ==
    /\ pc = "done"
    /\ pc' = "idle"
    /\ served' = served + 1
    /\ req' = NoRequest
    /\ image' = <<>>
    /\ original_shape' = <<>>
    /\ size_limit' = 0
    /\ mask' = <<>>
    /\ res_np_img' = <<>>
    /\ stages' = <<>>
    /\ model_calls' = 0
    /\ model_input' = <<>>
    /\ cache_released' = 0
    /\ UNCHANGED <<boot, globals, exc, resp>>

\* GET /: send_file(os.path.join(BUILD_DIR, "index.html"))
index ==
    /\ Serving
    /\ pc = "idle"
    /\ served < MaxRequests
    /\ served' = served + 1
    /\ exc' = "None"
    /\ resp' = [handler |-> "index", status |-> 200, body |-> "index.html"]
    /\ UNCHANGED <<boot, globals, pc, req, locals, observed>>

\* set_input_photo as it would be if it cleared the path once the picture
\* has been handed out.
set_input_photo_once ==
    /\ Serving
    /\ pc = "idle"
    /\ served < MaxRequests
    /\ served' = served + 1
    /\ exc' = "None"
    /\ resp' = [handler |-> "set_input_photo", status |-> 200,
                body |-> (IF input_image_path # "None" THEN input_image_path
                          ELSE "No Input Image")]
    /\ input_image_path' = "None"
    /\ UNCHANGED <<args, phase, diagnostic, model, device, pc, req, locals,
                   observed>>

\* GET /inputimage: the start-up picture if a path was given (the file may
\* have gone since start-up), else the text 'No Input Image'.
set_input_photo ==
    /\ Serving
    /\ pc = "idle"
    /\ served < MaxRequests
    /\ served' = served + 1
    /\ IF input_image_path # "None"
         THEN \E readable \in BOOLEAN :
                IF readable
                  THEN /\ exc' = "None"
                       /\ resp' = [handler |-> "set_input_photo", status |-> 200,
                                   body |-> input_image_path]
                  ELSE /\ exc' = "FileNotFoundError"
                       /\ resp' = [handler |-> "set_input_photo",
                                   status |-> FlaskStatus("FileNotFoundError"),
                                   body |-> "error"]
       ELSE /\ exc' = "None"
            /\ resp' = [handler |-> "set_input_photo", status |-> 200,
                        body |-> "No Input Image"]
    /\ UNCHANGED <<boot, globals, pc, req, locals, observed>>

Next ==
    \/ get_args_parser
    \/ SetGlobals
    \/ ConstructModel
    \/ StartServer
    \/ Receive
    \/ LoadImage
    \/ ResolveSizeLimit
    \/ ResizeImage
    \/ NormImage
    \/ LoadMask
    \/ ResizeMask
    \/ NormMask
    \/ CallModel
    \/ EmptyCache
    \/ SendFile
    \/ Return
    \/ index
    \/ set_input_photo

Spec == Init /\ [][Next]_vars

----------------------------------------------------------------------------
\* Properties of the requests and of start-up

Has(s) == \E i \in 1..Len(stages) : stages[i] = s

Ended == pc = "done"

IsPrefix(s, t) == Len(s) <= Len(t) /\ \A i \in 1..Len(s) : s[i] = t[i]

ClientError == resp.status \in 400..499
ServerError == resp.status \in 500..599

\* Height and width of the two uploads as decoded.
DecodedImageHW == <<req.image.h, req.image.w>>
DecodedMaskHW == <<req.mask.h, req.mask.w>>

\* Height and width of the locals image and mask, whose layout is
\* channel-first once norm_img has run.
ImageHW ==
    IF Has("norm_image") THEN <<image[2], image[3]>> ELSE <<image[1], image[2]>>
MaskHW ==
    IF Has("norm_mask") THEN <<mask[2], mask[3]>> ELSE <<mask[1], mask[2]>>

SizeLimitField == FormGet(req.form, DefaultSizeLimit)

\* C1: a request whose image or mask payload cannot be decoded ends with a
\* 400-class response, and the model is not invoked for it.
C1_UndecodableIsClientError ==
    (Ended /\ (req.image.kind = "garbage" \/ req.mask.kind = "garbage"))
        => (ClientError /\ model_calls = 0)

\* C2: a request whose sizeLimit is neither "Original" nor an integer ends
\* with a 400-class response, and the model is not invoked for it.  Stated
\* for the requests whose image decodes, which reach the size limit.
C2_BadSizeLimitIsClientError ==
    (Ended /\ Decodable(req.image)
           /\ SizeLimitField # Original /\ ~IntParses(SizeLimitField))
        => (ClientError /\ model_calls = 0)

\* C3: a request in which the model call fails ends with a 500-class
\* response, the model was invoked exactly once (never more than once in any
\* request), and no result picture was produced, encoded or returned.
C3_ModelFailureIsServerError ==
    /\ model_calls <= 1
    /\ (Ended /\ exc = "InferenceError")
         => /\ ServerError
            /\ model_calls = 1
            /\ res_np_img = <<>>
            /\ ~Has("encode")
            /\ resp.body # "result.jpeg"

C3_Witness == Ended /\ exc = "InferenceError" /\ model_calls = 1

\* C4: a request whose decoded image and mask differ in height or width
\* fails before the model is invoked: the model is only ever called with an
\* image and a mask of equal height and width.
C4_ModelOnlyCalledOnEqualDims ==
    /\ (Has("decode_mask") /\ Decodable(req.mask)
          /\ DecodedImageHW # DecodedMaskHW) => model_calls = 0
    /\ model_input # <<>> =>
          /\ model_input[1][2] = model_input[2][2]
          /\ model_input[1][3] = model_input[2][3]

\* C5: with sizeLimit = "Original" the size limit is resolved to exactly
\* max(H, W) of the decoded image, for every H and W, and the resize leaves
\* the image's height and width as decoded.
C5_OriginalResolvesToMaxHW ==
    (SizeLimitField = Original /\ Has("resolve_limit"))
        => /\ size_limit = Max2(req.image.h, req.image.w)
           /\ ImageHW = DecodedImageHW

\* C6: the image and the mask of one request are resized with the same
\* limit: whenever they decode to the same height and width, they have the
\* same height and width after the resize, for every size limit, and the
\* longer side of a resized picture does not exceed the limit.
C6_ResizeKeepsAlignment ==
    /\ Has("resize_image") => Max2(ImageHW[1], ImageHW[2]) <= size_limit
    /\ Has("resize_mask") => Max2(MaskHW[1], MaskHW[2]) <= size_limit
    /\ (Has("resize_mask") /\ DecodedImageHW = DecodedMaskHW)
          => ImageHW = MaskHW

C6_Witness ==
    /\ Has("resize_mask")
    /\ DecodedImageHW = DecodedMaskHW
    /\ MaskHW # DecodedMaskHW
    /\ SizeLimitField # Original

BadInput ==
    /\ args.input # "None"
    /\ ~exists(args.input) \/ imghdr_what(args.input) = "None"

\* C7: with an --input path that does not exist or is no picture, start-up
\* aborts with a diagnostic, the model is never constructed and the server
\* never serves; and whenever the server serves, the model is constructed.
C7_BadInputAbortsStartup ==
    /\ BadInput =>
          /\ model = "None"
          /\ ~Serving
          /\ phase \in {"start", "aborted"}
          /\ phase = "aborted" => diagnostic # "None"
    /\ Serving => model # "None"

C7_Witness == BadInput /\ phase = "aborted" /\ diagnostic # "None"

\* C8: in every request in which the model call was started, the cache has
\* been released by the time the request ends, whether the call succeeded or
\* failed.  Stated for the requests whose image and mask have the same
\* height and width, the ones the model accepts.
C8_CacheReleasedAfterEveryCall ==
    (Ended /\ model_calls > 0 /\ DecodedImageHW = DecodedMaskHW)
        => cache_released >= model_calls

\* The order of the stages as the specification lists them: the rank of a
\* stage is the number of its step in the list.
ClaimedRank(s) ==
    CASE s = "receive" -> 1
      [] s \in {"decode_image", "decode_mask"} -> 2
      [] s = "resolve_limit" -> 3
      [] s \in {"resize_image", "resize_mask"} -> 4
      [] s \in {"norm_image", "norm_mask"} -> 5
      [] s = "model" -> 6
      [] s = "release" -> 7
      [] OTHER -> 8

\* C9 as claimed: the stages run in the order receive, decode both, resolve
\* the limit, resize both, normalize both, model, release, encode, so both
\* uploads are decoded before the limit is resolved and before any resize.
C9_ClaimedStageOrder ==
    \A i, j \in 1..Len(stages) :
        i < j => ClaimedRank(stages[i]) <= ClaimedRank(stages[j])

\* The order of the statements of process().
CodeOrder ==
    <<"receive", "decode_image", "resolve_limit", "resize_image", "norm_image",
      "decode_mask", "resize_mask", "norm_mask", "model", "release", "encode">>

\* C9: the stages of a request run in the strict order receive, decode
\* image, resolve limit, resize image, normalize image, decode mask, resize
\* mask, normalize mask, model, release, encode; once a stage has failed, no
\* further stage of that request runs.
C9_StagesInCodeOrder ==
    [][ /\ IsPrefix(stages', CodeOrder)
        /\ (exc # "None" /\ pc # "idle") => stages' = <<>> ]_vars

C9_Witness ==
    /\ Ended
    /\ exc = "DecodeError"
    /\ stages = SubSeq(CodeOrder, 1, 6)

\* C10: model, device and input_image_path change only in main()'s
\* assignments, before the server serves and before any request; no handler
\* changes them, whatever the outcome of the request.
C10_GlobalsSetOnceAtStartup ==
    [][ /\ globals' # globals =>
              (phase \in {"parsed", "configured"} /\ served = 0 /\ pc = "idle")
        /\ Serving => globals' = globals
        /\ model # "None" => model' = model ]_vars

C10_Witness ==
    /\ Serving
    /\ served >= 2
    /\ resp.handler = "set_input_photo"
    /\ model # "None"
    /\ device = args.device
    /\ input_image_path = args.input
    /\ input_image_path # "None"

====
